---- MODULE Spec2Model ----
(***************************************************************************)
(* Model of RingBuffer (src/ringbuffer.py): a rolling store of images kept *)
(* in a PyTables file, one array node per slot under /images, named from   *)
(* the slot index, with a timestamp and a roi attribute on each node.      *)
(*                                                                         *)
(* Python values are records [t |-> type name, v |-> value]; the PyTables  *)
(* file is the pair (dbOpen, nodes), nodes being the function from the     *)
(* names of the nodes that exist under /images to their contents.          *)
(***************************************************************************)
EXTENDS Integers, Sequences, FiniteSets, TLC

VARIABLES
    N,          \* self.N
    recording,  \* self.recording
    roi,        \* self.roi, the default region of interest
    index,      \* self._index
    dbOpen,     \* whether self.db is an open file
    nodes,      \* the array nodes under /images of self.db, by name
    clock,      \* the wall clock, as read by datetime.now()
    events,     \* what has been passed to logger.debug
    written,    \* history: the data of every write that stored a frame and
                \* returned
    scope,      \* "none": plain use, "with": inside a with block, "exited"
    last,       \* history: the last call, the recording state it found and
                \* the exception it raised
    faults,     \* the number of storage errors the file has raised
    wr,         \* the write in progress in the writer thread, step by step
    obs,        \* what the last call of the reader thread returned
    rd          \* the call in progress in the reader thread, step by step

\* the variables that only the specifications with storage errors or with
\* threads change
aux == <<faults, wr, obs, rd>>

vars == <<N, recording, roi, index, dbOpen, nodes, clock, events, written,
          scope, last, faults, wr, obs, rd>>

-----------------------------------------------------------------------------
(* Bounds of the exploration *)

MaxN == 3
MaxWrites == 4
MaxEvents == 2
MaxFaults == 1

-----------------------------------------------------------------------------
(* Python values *)

PyBool(b) == [t |-> "bool", v |-> IF b THEN 1 ELSE 0]
PyInt(n) == [t |-> "int", v |-> n]
PyNoneScalar == [t |-> "NoneType", v |-> 0]

PyList(s) == [t |-> "list", v |-> s]
PyTuple(s) == [t |-> "tuple", v |-> s]
NdArray(s) == [t |-> "ndarray", v |-> s]
PyNone == [t |-> "NoneType", v |-> <<>>]

\* bool(x) for a bool or an int
ScalarTruthy(x) == x.v # 0

\* ~x, the bitwise complement, in the place of not x
PyInvert(x) == PyInt(-x.v - 1)

\* not x
PyNot(x) == PyBool(~ScalarTruthy(x))

\* isinstance(x, (int, bool))
IsIntOrBool(x) == x.t \in {"int", "bool"}

\* isinstance(x, (list, tuple, np.ndarray))
IsRoiType(x) == x.t \in {"list", "tuple", "ndarray"}

\* bool(x) for None, a list, a tuple or an array; "ValueError" when numpy
\* refuses to give an array of several elements a truth value
SeqTruthy(x) ==
    CASE x.t = "NoneType" -> "False"
      [] x.t \in {"list", "tuple"} -> IF Len(x.v) > 0 THEN "True" ELSE "False"
      [] x.t = "ndarray" ->
            IF Len(x.v) > 1 THEN "ValueError"
            ELSE IF Len(x.v) = 1 /\ x.v[1] # 0 THEN "True" ELSE "False"

-----------------------------------------------------------------------------
(* Inputs *)

Frames == {"A", "B"}
OneFrame == {"A"}
Capacities == (-1) .. MaxN
Bools == {PyBool(FALSE), PyBool(TRUE)}
RecordingInputs == {PyBool(FALSE), PyBool(TRUE), PyInt(0), PyInt(1), PyInt(2),
                    PyNoneScalar}
DefaultRoi == PyList(<<10, 100, 10, 100>>)
Rect == <<1, 2, 3, 4>>
NoRoi == {PyNone}
RoiInputs == {PyNone, PyList(Rect), PyTuple(Rect), NdArray(Rect)}
Indices == (-1) .. (MaxN + 1)
Slots == 0 .. (MaxN - 1)

NoExc == "none"

-----------------------------------------------------------------------------
(* Node names *)

DigitChar == <<"0", "1", "2", "3", "4", "5", "6", "7", "8", "9">>

RECURSIVE DecDigits(_)
DecDigits(n) ==
    IF n < 10 THEN <<DigitChar[n + 1]>>
    ELSE DecDigits(n \div 10) \o <<DigitChar[(n % 10) + 1]>>

RECURSIVE ZeroPad(_, _)
ZeroPad(s, w) == IF Len(s) >= w THEN s ELSE ZeroPad(<<"0">> \o s, w)

\* '{:04d}'.format(i): the sign counts in the width
Format04d(i) ==
    IF i < 0 THEN <<"-">> \o ZeroPad(DecDigits(-i), 3)
    ELSE ZeroPad(DecDigits(i), 4)

\* 'img{:04d}'.format(i)
NodeName(i) == <<"i", "m", "g">> \o Format04d(i)

-----------------------------------------------------------------------------
(* Timestamps *)

UsecPerSec == 1000000

\* datetime.strftime(t, '%Y-%m-%d %H:%M:%S.%f'): the seconds, then the six
\* digits of the microseconds
StrfTime(t) == <<t \div UsecPerSec, ZeroPad(DecDigits(t % UsecPerSec), 6)>>

-----------------------------------------------------------------------------
(* The PyTables file *)

\* self.db.get_node('/images/' + name): the exception it raises, if any
GetNodeErr(name) ==
    IF ~dbOpen THEN "ClosedFileError"
    ELSE IF name \notin DOMAIN nodes THEN "NoSuchNodeError"
    ELSE NoExc

\* an attribute that has not been set on a node
NoTimestamp == <<>>
NoRoiAttr == [t |-> "missing", v |-> <<>>]

\* the nodes left by node.remove() on the node called name
RemoveNode(name) == [m \in (DOMAIN nodes) \ {name} |-> nodes[m]]

\* an overwrite in place: the data replaced, the attributes of the node that
\* was there left as they were
CreateArrayStaleAttrs(ns, name, data, stamp, r) ==
    [m \in (DOMAIN ns) \cup {name} |->
        IF m = name
        THEN IF name \in DOMAIN nodes
             THEN [data |-> data, timestamp |-> nodes[name].timestamp,
                   roi |-> nodes[name].roi]
             ELSE [data |-> data, timestamp |-> stamp, roi |-> r]
        ELSE ns[m]]

\* the nodes after create_array('/images', name, data) and the setting of
\* the two attributes of the new array
CreateArray(ns, name, data, stamp, r) ==
    [m \in (DOMAIN ns) \cup {name} |->
        IF m = name THEN [data |-> data, timestamp |-> stamp, roi |-> r]
        ELSE ns[m]]

\* the nodes after create_array('/images', name, data) alone
NewArray(ns, name, data) == CreateArray(ns, name, data, NoTimestamp, NoRoiAttr)

\* the nodes after arr.attrs.timestamp = stamp on the node called name
SetTimestamp(ns, name, stamp) == [ns EXCEPT ![name].timestamp = stamp]

\* the nodes after arr.attrs.roi = r on the node called name
SetRoi(ns, name, r) == [ns EXCEPT ![name].roi = r]

-----------------------------------------------------------------------------
(* Queries: each gives [err |-> the exception raised or NoExc, val |-> the  *)
(* value returned]                                                          *)

\* len(rb)
Length ==
    IF ~dbOpen THEN [err |-> "ClosedFileError", val |-> 0]
    ELSE [err |-> NoExc, val |-> Cardinality(DOMAIN nodes)]

\* rb.read(index)
Read(i) ==
    LET e == GetNodeErr(NodeName(i))
    IN  IF e # NoExc THEN [err |-> e, val |-> ""]
        ELSE [err |-> NoExc, val |-> nodes[NodeName(i)].data]

\* rb.get_timestamp(index)
GetTimestamp(i) ==
    LET e == GetNodeErr(NodeName(i))
    IN  IF e # NoExc THEN [err |-> e, val |-> <<>>]
        ELSE IF nodes[NodeName(i)].timestamp = NoTimestamp
             THEN [err |-> "AttributeError", val |-> <<>>]
        ELSE [err |-> NoExc, val |-> nodes[NodeName(i)].timestamp]

\* rb.get_roi(index)
GetRoi(i) ==
    LET e == GetNodeErr(NodeName(i))
    IN  IF e # NoExc THEN [err |-> e, val |-> PyNone]
        ELSE IF nodes[NodeName(i)].roi = NoRoiAttr
             THEN [err |-> "AttributeError", val |-> PyNone]
        ELSE [err |-> NoExc, val |-> nodes[NodeName(i)].roi]

\* the loop of to_list from index i on, acc being listified
RECURSIVE ToListFrom(_, _)
ToListFrom(i, acc) ==
    IF i >= N THEN [err |-> NoExc, val |-> acc]
    ELSE LET r == Read(i)
         IN  IF r.err = "NoSuchNodeError" THEN [err |-> NoExc, val |-> acc]
             ELSE IF r.err # NoExc THEN [err |-> r.err, val |-> <<>>]
             ELSE ToListFrom(i + 1, Append(acc, r.val))

\* to_list with its loop over range(1, self.N)
ToListSkipFirst == ToListFrom(1, <<>>)

\* rb.to_list()
ToList == ToListFrom(0, <<>>)

-----------------------------------------------------------------------------
(* The constructor *)

\* the assertions of __init__
InitAccepts(rec, r) == IsIntOrBool(rec) /\ IsRoiType(r)

\* the state __init__ leaves, for the keyword arguments N = n, recording =
\* rec and roi = r; sc tells whether the buffer is made by a with statement
RingBufferInit(n, rec, r, sc) ==
    /\ InitAccepts(rec, r)
    /\ N = n
    /\ recording = rec
    /\ roi = r
    /\ index = 0
    /\ dbOpen = TRUE
    /\ nodes = <<>>
    /\ clock = 0
    /\ events = <<>>
    /\ written = <<>>
    /\ scope = sc
    /\ last = [op |-> "__init__", rec |-> rec, err |-> NoExc]
    /\ faults = 0
    /\ wr = [pc |-> "idle", data |-> "", roi |-> PyNone, had |-> FALSE]
    /\ obs = [op |-> "none", arg |-> 0, res |-> [err |-> NoExc, val |-> 0]]
    /\ rd = [pc |-> "idle", op |-> "none", arg |-> 0, alive |-> FALSE,
             acc |-> <<>>]

InitOver(recs) ==
    \E n \in Capacities, rec \in recs, sc \in {"none", "with"} :
        RingBufferInit(n, rec, DefaultRoi, sc)

-----------------------------------------------------------------------------
(* The calls *)

\* an exception raised inside the with block is on its way to __exit__
InFlight == scope = "with" /\ last.err # NoExc

\* the record of a call that found recording state rec and raised e
Call(op, rec, e) == [op |-> op, rec |-> rec, err |-> e]

\* the gate as "if self.recording is False: return"
GatedIsFalse(rec) == rec = PyBool(FALSE)

\* if not self.recording: return
Gated(rec) == ~ScalarTruthy(rec)

\* roi or self.roi
RoiOrDefault(r, d) ==
    LET b == SeqTruthy(r)
    IN  IF b = "ValueError" THEN [err |-> "ValueError", val |-> PyNone]
        ELSE [err |-> NoExc, val |-> IF b = "True" THEN r ELSE d]

\* the cursor wrapping one slot early
NextIndexEarly(idx, n) == IF idx < n - 2 THEN idx + 1 ELSE 0

\* the cursor wrapping one slot late
NextIndexLate(idx, n) == IF idx < n THEN idx + 1 ELSE 0

\* self._index + 1 if self._index < self.N - 1 else 0
NextIndex(idx, n) == IF idx < n - 1 THEN idx + 1 ELSE 0

\* the exception write raises, if any (a closed file fails get_node with an
\* error the except clause does not catch, and then create_array as well)
WriteErr(r) ==
    IF Gated(recording) THEN NoExc
    ELSE IF RoiOrDefault(r, roi).err # NoExc THEN RoiOrDefault(r, roi).err
    ELSE IF ~dbOpen THEN "ClosedFileError"
    ELSE NoExc

\* write gets as far as storing the frame
WriteStores(r) == ~Gated(recording) /\ WriteErr(r) = NoExc

\* rb.write(data, r). The clock is read once by a write that stores a frame,
\* and has moved on by the next one: a write flushes the file, which takes
\* longer than the microsecond the timestamp resolves.
Write(data, r) ==
    /\ ~InFlight
    /\ WriteStores(r) => Len(written) < MaxWrites
    /\ IF WriteStores(r)
       THEN /\ nodes' = CreateArray(RemoveNode(NodeName(index)), NodeName(index),
                                    data, StrfTime(clock), RoiOrDefault(r, roi).val)
            /\ index' = NextIndex(index, N)
            /\ clock' = clock + 1
            /\ written' = Append(written, data)
       ELSE UNCHANGED <<nodes, index, clock, written>>
    /\ last' = Call("write", recording, WriteErr(r))
    /\ UNCHANGED <<N, recording, roi, dbOpen, events, scope>>
    /\ UNCHANGED aux

\* the two messages of toggle taken for each other
ToggleMessageSwapped(rec) ==
    IF ScalarTruthy(rec) THEN "Resuming ring buffer recording"
    ELSE "Pausing ring buffer recording"

\* the message toggle logs
ToggleMessage(rec) == IF ScalarTruthy(rec) THEN "Pausing ring buffer recording"
                      ELSE "Resuming ring buffer recording"

\* rb.toggle()
Toggle ==
    /\ ~InFlight
    /\ Len(events) < MaxEvents
    /\ events' = Append(events, ToggleMessage(recording))
    /\ recording' = PyNot(recording)
    /\ last' = Call("toggle", recording, NoExc)
    /\ UNCHANGED <<N, roi, index, dbOpen, nodes, clock, written, scope>>
    /\ UNCHANGED aux

\* rb.set_recording_state(state)
SetRecordingState(state) ==
    /\ ~InFlight
    /\ IF IsIntOrBool(state)
       THEN /\ recording' = state
            /\ last' = Call("set_recording_state", recording, NoExc)
       ELSE /\ recording' = recording
            /\ last' = Call("set_recording_state", recording, "AssertionError")
    /\ UNCHANGED <<N, roi, index, dbOpen, nodes, clock, events, written, scope>>
    /\ UNCHANGED aux

\* rb.close(): closing a closed file does nothing
Close ==
    /\ ~InFlight
    /\ dbOpen' = FALSE
    /\ last' = Call("close", recording, NoExc)
    /\ UNCHANGED <<N, recording, roi, index, nodes, clock, events, written,
                   scope>>
    /\ UNCHANGED aux

\* the steps of write at which the file may raise a storage error
FaultStages == {"remove", "create", "timestamp", "roi", "flush"}

\* the nodes a write of data with roi r leaves when the file raises at the
\* step stage: the steps before it have been done, and nothing is undone
NodesAfterFault(data, r, stage) ==
    LET name == NodeName(index)
        made == NewArray(RemoveNode(name), name, data)
        stamped == SetTimestamp(made, name, StrfTime(clock))
    IN  CASE stage = "remove" -> nodes
          [] stage = "create" -> RemoveNode(name)
          [] stage = "timestamp" -> made
          [] stage = "roi" -> stamped
          [] stage = "flush" -> SetRoi(stamped, name, RoiOrDefault(r, roi).val)

\* the exception of such a write: when remove() raises, the finally clause
\* still calls create_array, which finds the node there and raises NodeError
FaultErr(stage) == IF stage = "remove" THEN "NodeError" ELSE "HDF5ExtError"

StorageErrors == {"NodeError", "HDF5ExtError"}

\* rb.write(data, r) when the file raises a storage error at the step stage;
\* the statements after the failing one, the cursor's advance among them, are
\* not reached
WriteFails(data, r, stage) ==
    /\ ~InFlight
    /\ WriteStores(r)
    /\ faults < MaxFaults
    /\ stage = "remove" => NodeName(index) \in DOMAIN nodes
    /\ nodes' = NodesAfterFault(data, r, stage)
    /\ clock' = clock + 1
    /\ faults' = faults + 1
    /\ last' = Call("write", recording, FaultErr(stage))
    /\ UNCHANGED <<N, recording, roi, index, dbOpen, events, written, scope,
                   wr, obs, rd>>

\* no write in progress
Idle == [pc |-> "idle", data |-> "", roi |-> PyNone, had |-> FALSE]

\* the write in progress ends with the exception e, its remaining statements
\* not reached
WriteAborts(e) ==
    /\ wr' = Idle
    /\ last' = Call("write", recording, e)

\* write, step by step, in a writer thread: the gate, roi and name
WBegin(data, r) ==
    /\ wr.pc = "idle"
    /\ Len(written) < MaxWrites
    /\ IF WriteErr(r) \notin {NoExc, "ClosedFileError"} \/ Gated(recording)
       THEN /\ wr' = wr
            /\ last' = Call("write", recording, WriteErr(r))
       ELSE /\ wr' = [pc |-> "remove", data |-> data,
                      roi |-> RoiOrDefault(r, roi).val,
                      had |-> GetNodeErr(NodeName(index)) = NoExc]
            /\ last' = last
    /\ UNCHANGED <<N, recording, roi, index, dbOpen, nodes, clock, events,
                   written, scope, faults, obs, rd>>

\* self.db.get_node('/images/' + name).remove(), or the NoSuchNodeError
\* passed over; whatever get_node raises, the finally clause comes next.
\* Removing the node closes the node object, the one a reader got from
\* get_node for the same name
WRemove ==
    /\ wr.pc = "remove"
    /\ nodes' = IF dbOpen THEN RemoveNode(NodeName(index)) ELSE nodes
    /\ wr' = [wr EXCEPT !.pc = "create"]
    /\ rd' = IF dbOpen /\ rd.pc = "held" /\ rd.arg = index
             THEN [rd EXCEPT !.alive = FALSE]
             ELSE rd
    /\ UNCHANGED <<N, recording, roi, index, dbOpen, clock, events, written,
                   scope, last, faults, obs>>

\* arr = self.db.create_array('/images', name, data)
WCreate ==
    /\ wr.pc = "create"
    /\ IF dbOpen
       THEN /\ nodes' = NewArray(nodes, NodeName(index), wr.data)
            /\ wr' = [wr EXCEPT !.pc = "timestamp"]
            /\ last' = last
       ELSE /\ nodes' = nodes
            /\ WriteAborts("ClosedFileError")
    /\ UNCHANGED <<N, recording, roi, index, dbOpen, clock, events, written,
                   scope, faults, obs, rd>>

\* arr.attrs.timestamp = datetime.strftime(datetime.now(), ...)
WTimestamp ==
    /\ wr.pc = "timestamp"
    /\ IF dbOpen
       THEN /\ nodes' = SetTimestamp(nodes, NodeName(index), StrfTime(clock))
            /\ clock' = clock + 1
            /\ wr' = [wr EXCEPT !.pc = "roi"]
            /\ last' = last
       ELSE /\ UNCHANGED <<nodes, clock>>
            /\ WriteAborts("ClosedNodeError")
    /\ UNCHANGED <<N, recording, roi, index, dbOpen, events, written, scope,
                   faults, obs, rd>>

\* arr.attrs.roi = roi
WRoi ==
    /\ wr.pc = "roi"
    /\ IF dbOpen
       THEN /\ nodes' = SetRoi(nodes, NodeName(index), wr.roi)
            /\ wr' = [wr EXCEPT !.pc = "flush"]
            /\ last' = last
       ELSE /\ nodes' = nodes
            /\ WriteAborts("ClosedNodeError")
    /\ UNCHANGED <<N, recording, roi, index, dbOpen, clock, events, written,
                   scope, faults, obs, rd>>

\* arr.flush(): nothing is pending for an array, closed or not
WArrFlush ==
    /\ wr.pc = "flush"
    /\ wr' = [wr EXCEPT !.pc = "dbflush"]
    /\ UNCHANGED <<N, recording, roi, index, dbOpen, nodes, clock, events,
                   written, scope, last, faults, obs, rd>>

\* self.db.flush()
WDbFlush ==
    /\ wr.pc = "dbflush"
    /\ IF dbOpen
       THEN wr' = [wr EXCEPT !.pc = "advance"] /\ last' = last
       ELSE WriteAborts("ClosedFileError")
    /\ UNCHANGED <<N, recording, roi, index, dbOpen, nodes, clock, events,
                   written, scope, faults, obs, rd>>

\* self._index = self._index + 1 if self._index < self.N - 1 else 0
WAdvance ==
    /\ wr.pc = "advance"
    /\ index' = NextIndex(index, N)
    /\ written' = Append(written, wr.data)
    /\ wr' = Idle
    /\ last' = Call("write", recording, NoExc)
    /\ UNCHANGED <<N, recording, roi, dbOpen, nodes, clock, events, scope,
                   faults, obs, rd>>

\* no call in progress in the reader thread
NoCall == [pc |-> "idle", op |-> "none", arg |-> 0, alive |-> FALSE,
           acc |-> <<>>]

\* what a step of the reader thread leaves alone
ReaderFrame ==
    UNCHANGED <<N, recording, roi, index, dbOpen, nodes, clock, events,
                written, scope, last, faults, wr>>

\* the call of the reader thread returns: what it asked and what it got
Observed(op, arg, res) ==
    /\ obs' = [op |-> op, arg |-> arg, res |-> res]
    /\ rd' = NoCall

\* the reader holds the node object get_node gave it for index i
Holds(op, i, acc) ==
    /\ rd' = [pc |-> "held", op |-> op, arg |-> i, alive |-> TRUE, acc |-> acc]
    /\ obs' = obs

\* the node object the reader holds is open: the file has not been closed
\* and the node has not been removed since get_node
NodeUsable == dbOpen /\ rd.alive

\* rb.read(i) in the reader thread: img = self.db.get_node(...)
ReaderRead(i) ==
    /\ rd.pc = "idle"
    /\ IF GetNodeErr(NodeName(i)) # NoExc
       THEN Observed("read", i, Read(i))
       ELSE Holds("read", i, <<>>)
    /\ ReaderFrame

\* return np.array(img)
ReaderArray ==
    /\ rd.pc = "held" /\ rd.op = "read"
    /\ Observed("read", rd.arg,
                IF NodeUsable THEN Read(rd.arg)
                ELSE [err |-> "ClosedNodeError", val |-> ""])
    /\ ReaderFrame

\* rb.get_timestamp(i) in the reader thread: self.db.get_node(...)
ReaderGetTimestamp(i) ==
    /\ rd.pc = "idle"
    /\ IF GetNodeErr(NodeName(i)) # NoExc
       THEN Observed("get_timestamp", i, GetTimestamp(i))
       ELSE Holds("get_timestamp", i, <<>>)
    /\ ReaderFrame

\* return (the node).attrs.timestamp
ReaderAttrsTimestamp ==
    /\ rd.pc = "held" /\ rd.op = "get_timestamp"
    /\ Observed("get_timestamp", rd.arg,
                IF NodeUsable THEN GetTimestamp(rd.arg)
                ELSE [err |-> "ClosedNodeError", val |-> <<>>])
    /\ ReaderFrame

\* rb.get_roi(i) in the reader thread: self.db.get_node(...)
ReaderGetRoi(i) ==
    /\ rd.pc = "idle"
    /\ IF GetNodeErr(NodeName(i)) # NoExc
       THEN Observed("get_roi", i, GetRoi(i))
       ELSE Holds("get_roi", i, <<>>)
    /\ ReaderFrame

\* return (the node).attrs.roi
ReaderAttrsRoi ==
    /\ rd.pc = "held" /\ rd.op = "get_roi"
    /\ Observed("get_roi", rd.arg,
                IF NodeUsable THEN GetRoi(rd.arg)
                ELSE [err |-> "ClosedNodeError", val |-> PyNone])
    /\ ReaderFrame

\* len(rb) in the reader thread: one call on the file
ReaderLen ==
    /\ rd.pc = "idle"
    /\ Observed("len", 0, Length)
    /\ ReaderFrame

\* rb.to_list() in the reader thread: listified = []
ReaderToList ==
    /\ rd.pc = "idle"
    /\ rd' = [pc |-> "loop", op |-> "to_list", arg |-> 0, alive |-> FALSE,
              acc |-> <<>>]
    /\ obs' = obs
    /\ ReaderFrame

\* the next i of range(self.N) and the get_node of self.read(i), or the end
\* of the loop (range exhausted, or NoSuchNodeError and break) and the
\* return of listified
ReaderToListNode ==
    /\ rd.pc = "loop"
    /\ LET e == IF rd.arg >= N THEN "StopIteration"
                ELSE GetNodeErr(NodeName(rd.arg))
       IN  IF e \in {"StopIteration", "NoSuchNodeError"}
           THEN Observed("to_list", 0, [err |-> NoExc, val |-> rd.acc])
           ELSE IF e # NoExc
           THEN Observed("to_list", 0, [err |-> e, val |-> <<>>])
           ELSE Holds("to_list", rd.arg, rd.acc)
    /\ ReaderFrame

\* the np.array(img) of self.read(i), and listified.append
ReaderToListArray ==
    /\ rd.pc = "held" /\ rd.op = "to_list"
    /\ IF NodeUsable
       THEN /\ rd' = [rd EXCEPT !.pc = "loop", !.arg = rd.arg + 1,
                                !.alive = FALSE,
                                !.acc = Append(rd.acc, Read(rd.arg).val)]
            /\ obs' = obs
       ELSE Observed("to_list", 0, [err |-> "ClosedNodeError", val |-> <<>>])
    /\ ReaderFrame

\* an __exit__ that returns True
ExitReturnTrue == PyBool(TRUE)

\* what __exit__ returns: nothing, that is None
ExitReturn == PyNoneScalar

\* the end of the with block, normal or by the exception in flight:
\* __exit__ closes, and the exception goes on unless __exit__ returns true
Exit ==
    /\ scope = "with"
    /\ scope' = "exited"
    /\ dbOpen' = FALSE
    /\ last' = Call("__exit__", recording,
                     IF ScalarTruthy(ExitReturn) THEN NoExc ELSE last.err)
    /\ UNCHANGED <<N, recording, roi, index, nodes, clock, events, written>>
    /\ UNCHANGED aux

-----------------------------------------------------------------------------
(* Specifications: the same calls over two sets of arguments *)

\* frames that differ and every kind of recording state, no roi given
Init == InitOver(RecordingInputs)

Next ==
    \/ \E data \in Frames, r \in NoRoi : Write(data, r)
    \/ Toggle
    \/ \E state \in RecordingInputs : SetRecordingState(state)
    \/ Close
    \/ Exit

Spec == Init /\ [][Next]_vars

\* every kind of roi, recording a boolean that set_recording_state switches
\* (toggle, which differs from it by its log, is left to Spec)
InitRoi == InitOver(Bools)

NextRoi ==
    \/ \E data \in Frames, r \in RoiInputs : Write(data, r)
    \/ \E state \in Bools : SetRecordingState(state)
    \/ Close
    \/ Exit

SpecRoi == InitRoi /\ [][NextRoi]_vars

\* the calls when the file may raise storage errors
InitFault == InitOver(Bools)

NextFault ==
    \/ \E data \in Frames, r \in NoRoi : Write(data, r)
    \/ \E data \in Frames, r \in NoRoi, stage \in FaultStages :
            WriteFails(data, r, stage)
    \/ \E state \in Bools : SetRecordingState(state)
    \/ Close
    \/ Exit

SpecFault == InitFault /\ [][NextFault]_vars

\* a writer thread, a reader thread and a thread that closes, with no lock
\* between them: a step is one call on the file or one access through a
\* node object; the reader asks for the slots 0 .. MaxN - 1
InitConc ==
    \E n \in Capacities : RingBufferInit(n, PyBool(TRUE), DefaultRoi, "none")

NextConc ==
    \/ \E data \in Frames, r \in NoRoi : WBegin(data, r)
    \/ WRemove
    \/ WCreate
    \/ WTimestamp
    \/ WRoi
    \/ WArrFlush
    \/ WDbFlush
    \/ WAdvance
    \/ \E i \in Slots : ReaderRead(i)
    \/ ReaderArray
    \/ \E i \in Slots : ReaderGetTimestamp(i)
    \/ ReaderAttrsTimestamp
    \/ \E i \in Slots : ReaderGetRoi(i)
    \/ ReaderAttrsRoi
    \/ ReaderLen
    \/ ReaderToList
    \/ ReaderToListNode
    \/ ReaderToListArray
    \/ Close

SpecConc == InitConc /\ [][NextConc]_vars

-----------------------------------------------------------------------------
(* Claims *)

Ok(v) == [err |-> NoExc, val |-> v]

\* x == y in Python, for bools and ints (True == 1, False == 0)
PyEq(x, y) == x.v = y.v

Pausing == "Pausing ring buffer recording"
Resuming == "Resuming ring buffer recording"

\* C1: on an open buffer of capacity N >= 1, after k <= N writes that stored
\* a frame, len() is k and read(i) is the i-th frame written, 0 <= i < k.
C1_FirstWritesReadBack ==
    (N >= 1 /\ dbOpen /\ Len(written) <= N) =>
        /\ Length = Ok(Len(written))
        /\ \A i \in 0 .. (Len(written) - 1) : Read(i) = Ok(written[i + 1])

C1_Witness ==
    /\ N = 3 /\ dbOpen
    /\ written = <<"A", "B", "A">>
    /\ Read(1) = Ok("B")

\* C2: on an open buffer of capacity N >= 1, after k > N writes that stored a
\* frame, len() is N, read((k-1) mod N) is the last frame written and the
\* cursor is k mod N.
C2_WrappedWrites ==
    (N >= 1 /\ dbOpen /\ Len(written) > N) =>
        /\ Length = Ok(N)
        /\ Read((Len(written) - 1) % N) = Ok(written[Len(written)])
        /\ index = Len(written) % N

C2_Witness ==
    /\ N = 3 /\ dbOpen
    /\ written = <<"A", "A", "A", "B">>
    /\ index = 1
    /\ Read(0) = Ok("B")

\* C3: on an open buffer, a write that finds recording false changes neither
\* len(), nor the cursor, nor any node (its data, timestamp or roi). (A step
\* that leaves "write" as the last call is a step of Write.)
C3_GatedWriteIsNoOp ==
    [][(last'.op = "write" /\ dbOpen /\ ~ScalarTruthy(recording)) =>
          (Length' = Length /\ index' = index /\ nodes' = nodes)]_vars

C3_Witness ==
    /\ last = Call("write", PyInt(0), NoExc)
    /\ dbOpen
    /\ Len(written) = 2
    /\ index = 2

\* C4: read, get_timestamp and get_roi fail with the not-found error on an
\* index within 0 .. N-1 that holds no frame, and with another error, a range
\* error, on an index below 0 or from N on (stated for the capacities N >= 1).
C4_Original ==
    (N >= 1 /\ dbOpen) =>
        \A i \in Indices :
            LET errs == {Read(i).err, GetTimestamp(i).err, GetRoi(i).err}
            IN  /\ (0 <= i /\ i < N /\ NodeName(i) \notin DOMAIN nodes) =>
                        errs = {"NoSuchNodeError"}
                /\ (i < 0 \/ i >= N) =>
                        errs \cap {NoExc, "NoSuchNodeError"} = {}

\* C5: a write on an open, recording buffer, with the roi given as a list, a
\* tuple or an array, or not given, stores the frame; read at the index it
\* wrote gives back the data, and get_roi the roi given, or the default roi
\* exactly when none was given (stated for the capacities N >= 1).
C5_Original ==
    [][\A data \in Frames, r \in RoiInputs, i \in {index} :
          (Write(data, r) /\ N >= 1 /\ dbOpen /\ ScalarTruthy(recording)) =>
              /\ last'.err = NoExc
              /\ Read(i)' = Ok(data)
              /\ GetRoi(i)' = Ok(IF r = PyNone THEN roi ELSE r)]_vars

\* C6: once the file is closed, write (whatever the recording state), read,
\* get_timestamp, get_roi, len and to_list all fail with the closed-file
\* error (stated for the capacities N >= 1; only close and __exit__ close the
\* file, so a write that is the last call on a closed file came after it).
C6_Original ==
    (N >= 1 /\ ~dbOpen) =>
        /\ last.op = "write" => last.err = "ClosedFileError"
        /\ \A i \in Indices :
              {Read(i).err, GetTimestamp(i).err, GetRoi(i).err}
                  = {"ClosedFileError"}
        /\ Length.err = "ClosedFileError"
        /\ ToList.err = "ClosedFileError"

\* C7, as stated: a toggle that follows a toggle leaves recording equal (==)
\* to what the first of the two found, and the two have logged one message
\* each, one of pausing and one of resuming.
C7_Original ==
    [][(Toggle /\ last.op = "toggle") =>
          /\ PyEq(recording', last.rec)
          /\ Len(events') = Len(events) + 1
          /\ Len(events) >= 1
          /\ {events'[Len(events)], events'[Len(events')]} = {Pausing, Resuming}]_vars

\* C7, amended: a toggle that follows a toggle leaves recording equal to the
\* truth value of what the first of the two found, which is that value when
\* it was a boolean, 0 or 1; and the two have logged one message each, one of
\* pausing and one of resuming.
C7_ToggleTwice ==
    [][(Toggle /\ last.op = "toggle") =>
          /\ recording' = PyBool(ScalarTruthy(last.rec))
          /\ last.rec.v \in {0, 1} => PyEq(recording', last.rec)
          /\ Len(events') = Len(events) + 1
          /\ Len(events) >= 1
          /\ {events'[Len(events)], events'[Len(events')]} = {Pausing, Resuming}]_vars

C7_Witness ==
    /\ last = Call("toggle", PyBool(FALSE), NoExc)
    /\ recording = PyBool(TRUE)
    /\ events = <<Pausing, Resuming>>

\* C8: to_list gives the frames at indices 0, 1, ... in index order up to the
\* first index that holds none: the frames written so far, in the order
\* written, before the first wrap, and the N frames held after it.
C8_ToListIndexOrder ==
    dbOpen =>
        /\ ToList.err = NoExc
        /\ \A i \in 1 .. Len(ToList.val) : Read(i - 1) = Ok(ToList.val[i])
        /\ Len(ToList.val) < N => Read(Len(ToList.val)).err = "NoSuchNodeError"
        /\ (N < 0 \/ Len(ToList.val) <= N)
        /\ Len(written) <= N => ToList.val = written
        /\ (N >= 0 /\ Len(written) >= N) => Len(ToList.val) = N

C8_Witness ==
    /\ N = 3 /\ dbOpen
    /\ written = <<"A", "A", "A", "B">>
    /\ Length = Ok(3)
    /\ Read(0) = Ok("B")
    /\ ToList = Ok(<<"B", "A", "A">>)

\* C9: when the with block is left, normally or by an exception of a call in
\* it, the file has been closed and the exception, if any, goes on to the
\* caller of the with statement.
C9_ExitClosesAndPropagates ==
    [][(scope = "with" /\ scope' # "with") =>
          (~dbOpen' /\ last'.err = last.err)]_vars

C9_Witness ==
    /\ scope = "exited"
    /\ last.op = "__exit__"
    /\ last.err = "ValueError"
    /\ ~dbOpen
    /\ Len(written) = 1

\* C10: no buffer of capacity below 1 exists: the constructor refuses it.
C10_Original == N >= 1

\* C11: on an open buffer there are at most N nodes, len() <= N, and every
\* node is that of an index in 0 .. N-1 (stated for the capacities N >= 0).
C11_Original ==
    (N >= 0 /\ dbOpen) =>
        /\ Length.val <= N
        /\ DOMAIN nodes \subseteq {NodeName(i) : i \in 0 .. (N - 1)}

\* C12: the cursor is within 0 .. N-1 in every state (it starts at 0, a
\* write that stores moves it from c to (c + 1) mod N, no other call moves it).
C12_Original == 0 <= index /\ index < N

\* C17: a write that stores at an index that held a frame leaves one node
\* there, and read, get_timestamp and get_roi at that index give the data of
\* this write, the timestamp this write took (not the one that was there) and
\* the roi given to it, or the default roi when none was given.
C17_OverwriteReplacesSlot ==
    [][(/\ last'.op = "write" /\ last'.err = NoExc
        /\ ScalarTruthy(recording) /\ dbOpen
        /\ Read(index).err = NoExc) =>
          \A data \in Frames, r \in RoiInputs, i \in {index}, t \in {clock} :
              Write(data, r) =>
                  /\ Read(i)' = Ok(data)
                  /\ GetTimestamp(i)' = Ok(StrfTime(t))
                  /\ GetTimestamp(i)' # GetTimestamp(i)
                  /\ GetRoi(i)' = Ok(IF r = PyNone THEN roi ELSE r)
                  /\ Length' = Length]_vars

C17_Witness ==
    /\ N = 2 /\ dbOpen
    /\ written = <<"A", "A", "B">>
    /\ last = Call("write", PyBool(TRUE), NoExc)
    /\ Read(0) = Ok("B")
    /\ GetRoi(0) = Ok(PyTuple(Rect))
    /\ GetRoi(1) = Ok(DefaultRoi)
    /\ GetTimestamp(0) = Ok(StrfTime(2))

\* C19: on an open buffer the nodes are those of the indices 0 .. len()-1,
\* and to_list gives len() arrays.
C19_Original ==
    dbOpen =>
        /\ DOMAIN nodes = {NodeName(i) : i \in 0 .. (Length.val - 1)}
        /\ Len(ToList.val) = Length.val

\* C20: set_recording_state(b) and toggle change recording and nothing else
\* of the buffer (not the cursor, the capacity, the default roi or any node):
\* the first sets it to b, the second to its negation, logging the pausing
\* message when recording was true and the resuming message when it was false.
C20_GateMutationsArePure ==
    [][/\ last'.op = "toggle" =>
              /\ recording' = PyBool(~ScalarTruthy(recording))
              /\ events' = Append(events, IF ScalarTruthy(recording)
                                          THEN Pausing ELSE Resuming)
              /\ UNCHANGED <<index, N, roi, nodes, dbOpen>>
       /\ \A b \in RecordingInputs :
              (SetRecordingState(b) /\ IsIntOrBool(b)) =>
                  /\ recording' = b
                  /\ UNCHANGED <<index, N, roi, nodes, dbOpen, events>>]_vars

C20_Witness ==
    /\ last = Call("toggle", PyInt(2), NoExc)
    /\ recording = PyBool(FALSE)
    /\ events = <<Resuming, Pausing>>
    /\ Len(written) = 2

\* C13: on an open buffer len() never goes down from one call to the next,
\* failed writes included, and stays N once it is N (stated for the
\* capacities N >= 1).
C13_Original ==
    [][(N >= 1 /\ dbOpen /\ dbOpen') =>
          /\ Length'.val >= Length.val
          /\ Length.val = N => Length'.val = N]_vars

\* C18: a write that the file fails with a storage error leaves the cursor
\* and every node, that of the index it was writing included, as they were
\* (stated for the capacities N >= 1).
C18_Original ==
    [][(N >= 1 /\ last'.op = "write" /\ last'.err \in StorageErrors) =>
          (index' = index /\ nodes' = nodes)]_vars

\* C14: a read, get_timestamp or get_roi of the reader, at the index of a
\* write in progress that found a frame there, returns a value: it neither
\* finds no node nor finds the node without its timestamp or roi (stated for
\* the capacities N >= 1, the file open).
C14_Original ==
    [][(/\ obs' # obs
        /\ N >= 1 /\ dbOpen
        /\ wr.pc # "idle" /\ wr.had
        /\ obs'.op \in {"read", "get_timestamp", "get_roi"}
        /\ obs'.arg = index) =>
          obs'.res.err = NoExc]_vars

\* C15: when close releases the file no write is between its removal of the
\* old node and its creation of the new one, or between that creation and
\* the advance of the cursor (stated for the capacities N >= 1).
C15_Original ==
    [][(N >= 1 /\ dbOpen /\ ~dbOpen') =>
          /\ ~(wr.pc = "create" /\ wr.had)
          /\ wr.pc \notin {"timestamp", "roi", "flush", "dbflush", "advance"}]_vars

\* C16: once N writes have returned, every to_list of the reader gives N
\* arrays and every len gives N, wherever the call falls among the steps of
\* a write (stated for the capacities N >= 1, the file open).
C16_Original ==
    [][(/\ obs' # obs
        /\ N >= 1 /\ dbOpen
        /\ Len(written) >= N) =>
          /\ obs'.op = "to_list" => Len(obs'.res.val) = N
          /\ obs'.op = "len" => obs'.res.val = N]_vars

====
